---------------------------- MODULE Spec2Model ----------------------------
(***************************************************************************)
(* Model of the PGFN / Regularize scrape orchestrator.                     *)
(*                                                                         *)
(*   src/pgfn_client.py       PGFNClient.search_company                    *)
(*   src/main.py              _solve_hcaptcha_with_2captcha, run           *)
(*   src/regularize_client.py RegularizeClient.open / emitir_darf_integral *)
(*                                                                         *)
(* Every coroutine is cut at its await points: one action is the code that *)
(* runs between two awaits, so listener callbacks and cancellation         *)
(* interleave exactly where asyncio lets them.  Text values are tuples of  *)
(* one-character strings, so that strip() and replace() are computed.      *)
(***************************************************************************)
EXTENDS Integers, Sequences, FiniteSets, TLC

\* ------------------------------------------------------------------ bounds
\* Largest max_attempts argument tried for search_company.
MaxAttempts == 3
\* Largest number of table rows the portal renders for one query.
MaxRows == 2
\* Largest number of body reads one result table brings: every registered
\* listener reads the body of every row's detail response.
MaxReads == 4
\* Largest number of emitir_darf_integral calls made on one RegularizeClient.
MaxCalls == 2
\* Largest number of PDF responses the second portal sends in one session.
MaxResponses == 2

\* ------------------------------------------------------------- text values
\* Python None, kept a tuple so that it compares with every text value.
None == <<"<None>">>

Truthy(v) == v # None /\ v # <<>>

RECURSIVE LStrip(_)
\* str.lstrip(): drop leading blanks.
LStrip(s) ==
    IF s # <<>> /\ Head(s) = " " THEN LStrip(Tail(s)) ELSE s

RECURSIVE RStrip(_)
\* str.rstrip(): drop trailing blanks.
RStrip(s) ==
    IF s # <<>> /\ s[Len(s)] = " " THEN RStrip(SubSeq(s, 1, Len(s) - 1)) ELSE s

\* str.strip()
Strip(s) == RStrip(LStrip(s))

\* `x or ""`, then str(...)
StrOrEmpty(v) == IF Truthy(v) THEN v ELSE <<>>

\* -------------------------------------------------- portal detail payloads
\* What GET /api/devedores?id=... may carry.  kind "dict" is a JSON object
\* with at least one key, "emptydict" is {}, "list" a JSON array (no .get),
\* "notjson" a body resp.json() rejects.  numeros is the flattened
\* naturezas[*].debitos[*].numero.  For a "list", id and numeros are those
\* of the row-map the array holds.
Payload(k, i, n) == [kind |-> k, id |-> i, numeros |-> n]

NonePayload == Payload("None", None, <<>>)

Payloads ==
    { Payload("dict", <<"1">>,      << <<"7">> >>),
      Payload("dict", <<"1">>,      << <<"8">> >>),
      Payload("dict", <<" ", "2">>, <<>>),
      Payload("dict", None,         << <<"7">> >>),
      Payload("dict", <<" ">>,      << None, <<"9", " ">> >>),
      Payload("emptydict", None,    <<>>),
      Payload("list", <<"3">>,      << <<"7">> >>),
      Payload("notjson", None,      <<>>) }

\* A response body no listener has read yet.
Unread == Payload("unread", None, <<>>)

\* `if self._last_detail_json:` -- None, {} and [] are all falsy.
PayloadTruthy(p) == p.kind \in {"dict", "list"}

RECURSIVE Inscriptions(_)
\* lines 363-370: keep str(numero).strip() of every truthy numero.
Inscriptions(ns) ==
    IF ns = <<>> THEN <<>>
    ELSE IF Truthy(Head(ns)) THEN <<Strip(Head(ns))>> \o Inscriptions(Tail(ns))
    ELSE Inscriptions(Tail(ns))

\* line 362: cnpj = str(data_detail.get("id") or "").strip()
ExtractCnpj(p) == Strip(StrOrEmpty(p.id))

\* lines 361-371: the DebtorRow built from one captured payload.
DebtorRow(p) == [cnpj |-> ExtractCnpj(p), inscriptions |-> Inscriptions(p.numeros)]

\* d.cnpj in unique
HasCnpj(u, c) == \E i \in 1..Len(u) : u[i].cnpj = c

\* A faulty Dedup: a later record replaces the one kept for its identifier.
RECURSIVE DedupLastWins(_, _)
DedupLastWins(ds, u) ==
    IF ds = <<>> THEN u
    ELSE DedupLastWins(Tail(ds),
            IF HasCnpj(u, Head(ds).cnpj)
            THEN [i \in 1..Len(u) |->
                    IF u[i].cnpj = Head(ds).cnpj THEN Head(ds) ELSE u[i]]
            ELSE Append(u, Head(ds)))

RECURSIVE Dedup(_, _)
\* lines 380-384: unique = {}; first record of each cnpj, insertion order.
Dedup(ds, u) ==
    IF ds = <<>> THEN u
    ELSE Dedup(Tail(ds),
            IF HasCnpj(u, Head(ds).cnpj) THEN u ELSE Append(u, Head(ds)))

\* ---------------------------------------------------------------- state
VARIABLES
    \* --- PGFNClient.search_company
    max_attempts,   \* the max_attempts argument
    attempt,        \* local `attempt`
    spc,            \* where search_company stands
    auth_token,     \* self._auth_token
    n401,           \* cycles so far whose submit was answered with status 401
    nrows,          \* len(rows) of the rendered result table
    idx,            \* the row the for loop is at (1-based)
    slot,           \* self._last_detail_json
    inflight,       \* detail responses requested by a click, not yet delivered
    debtors,        \* local `debtors`
    result,         \* the list search_company returned (when spc = "returned")
    cancelAt,       \* the row at which the task was cancelled, 0 when it was not
    recov,          \* recovery steps taken for the 401 that answered the last request
    sent,           \* authorization header of the last data-endpoint request sent
    seen,           \* statuses of the exchanges captured for the submit just
                    \* answered, in order of arrival; emptied by the next step
    slotRow,        \* the row whose click caused the payload in slot, 0 for none
    namefield,      \* content of the name field, followed up to the submit
                    \* that is answered with 200 (the field is not used after)
    listeners,      \* response listeners of search_company registered on the page
    routes,         \* route handlers of search_company registered on the page
    clicked,        \* the clicks the latest submit tried, in order; emptied
                    \* by the next step
    reading,        \* detail responses that reached the listeners and whose
                    \* body some of them are still awaiting (line 191)
    unheard,        \* answers to submits that carry an authorization header
                    \* and have not reached the listener yet
    \* --- _solve_hcaptcha_with_2captcha
    apc,            \* where the adapter stands
    content,        \* what page.content() returned
    a_attempt,      \* local `attempt`
    solverCalls,    \* calls of solver.hcaptcha made so far
    a_token,        \* local `token`
    field,          \* value of textarea[name="h-captcha-response"]
    a_result,       \* the tuple the adapter returned (when apc = "returned")
    a_outcome,      \* how the latest attempt of the adapter's loop ended
    a_auth,         \* local `auth_token`
    a_injected,     \* local `injected_token`
    \* --- run
    rpc,            \* where run() stands
    ctx,            \* local `ctx` is set (the browser context exists)
    reached,        \* the stages of run() entered so far
    exitCode,       \* 1 once sys.exit(1) was called, else 0
    tornDown,       \* the finally clause closed the context
    \* --- RegularizeClient
    epc,            \* where emitir_darf_integral stands ("ready" between calls)
    calls,          \* calls of emitir_darf_integral started so far
    e_cnpj,         \* argument cnpj_digits_only
    e_insc,         \* argument inscricao
    e_btn,          \* which Imprimir selector the for loop is at (1 or 2)
    e_download,     \* bytes of the download being saved
    e_path,         \* local pdf_path
    last_pdf_bytes, \* self._last_pdf_bytes
    pending,        \* on_response invocations suspended in `await resp.body()`
    arrivals,       \* PDF responses that reached on_response so far
    files,          \* the download directory: {[path, data]}
    e_result,       \* how the last call ended: a path or an exception
    downloadFired,  \* a download event fired during the current call
    delivered,      \* non-empty bodies on_response has read so far
    \* --- _to_float_safe
    fpc,            \* where the call of _to_float_safe stands
    f_val,          \* argument val
    f_res,          \* what the call returned (when fpc = "returned")
    \* --- the form steps of emitir_darf_integral
    dom,            \* the second portal's page: its inputs and its buttons
    form,           \* the value each input of the page holds
    flog,           \* what each form step of the current call did, in order
    \* --- _human_type
    hpc,            \* where the call of _human_type stands
    h_text,         \* argument text
    h_field         \* content of the focused field

searchVars == <<max_attempts, attempt, spc, auth_token, n401, nrows, idx, slot,
                inflight, debtors, result, cancelAt, recov, sent, seen,
                slotRow, namefield, listeners, routes, clicked, reading,
                unheard>>

adapterVars == <<apc, content, a_attempt, solverCalls, a_token, field, a_result,
                 a_outcome, a_auth, a_injected>>

runVars == <<rpc, ctx, reached, exitCode, tornDown>>

emitVars == <<epc, calls, e_cnpj, e_insc, e_btn, e_download, e_path,
              last_pdf_bytes, pending, arrivals, files, e_result, downloadFired,
              delivered>>

floatVars == <<fpc, f_val, f_res>>

formVars == <<dom, form, flog>>

typeVars == <<hpc, h_text, h_field>>

\* The variables of the function-level specifications.
unitVars == <<floatVars, formVars, typeVars>>

vars == <<searchVars, adapterVars, runVars, emitVars, unitVars>>

nonSearchVars == <<adapterVars, runVars, emitVars, unitVars>>

nonAdapterVars == <<searchVars, runVars, emitVars, unitVars>>

nonEmitVars == <<searchVars, adapterVars, runVars, unitVars>>

nonFloatVars == <<searchVars, adapterVars, runVars, emitVars, formVars, typeVars>>

\* ------------------------------------------------------------ _human_type
Min(a, b) == IF a < b THEN a ELSE b

\* keyboard.press("Backspace") in a text field: the last character goes.
Backspace(f) == IF f = <<>> THEN <<>> ELSE SubSeq(f, 1, Len(f) - 1)

\* line 69: random.randint(2, 4)
ChunkSizes == 2..4

\* line 69: text[len(typed): len(typed) + k]
Chunk(text, typed, k) ==
    SubSeq(text, Len(typed) + 1, Min(Len(typed) + k, Len(text)))

RECURSIVE TypeFrom(_, _, _, _)
\* lines 67-81: the for loop from the i-th character of text on, with the
\* local `typed` and the content of the focused field.  Every outcome of the
\* random draws is taken: a chunk is inserted (lines 68-73, the loop then
\* goes on with the character after ch), or ch is typed (lines 74-75) and
\* then perhaps deleted again (lines 78-80).  The result is the set of
\* contents the field can end with.
TypeFrom(text, i, typed, box) ==
    IF i > Len(text) THEN {box}
    ELSE LET chunked ==
                 IF Len(text) - Len(typed) > 3
                 THEN UNION { TypeFrom(text, i + 1,
                                       typed \o Chunk(text, typed, k),
                                       box \o Chunk(text, typed, k)) :
                              k \in ChunkSizes }
                 ELSE {}
             typed1 == typed \o <<text[i]>>
             box1 == box \o <<text[i]>>
             kept == TypeFrom(text, i + 1, typed1, box1)
             erased ==
                 IF typed1 # <<>>
                 THEN TypeFrom(text, i + 1, Backspace(typed1), Backspace(box1))
                 ELSE {}
         IN  chunked \cup kept \cup erased

\* lines 62-82: what the field can hold after _human_type(p, selector, text)
\* when it held `box` before.
HumanType(text, box) == TypeFrom(text, 1, <<>>, box)

\* ----------------------------------------------- PGFNClient.search_company
\* The name_query argument the search is tried with.
NameQuery == <<"q", "r">>

\* lines 152-155 and 199: the Page object has on, once and remove_listener
\* and no off, so looking up p.off raises AttributeError, which line 154
\* swallows: the listener of the cycle before stays registered and line 199
\* registers one more.
ListenersAfter(n) == n + 1

\* lines 148-151 and 213: unroute(url) without a handler drops every handler
\* registered for the url, then line 213 registers one.
RoutesAfter(n) == 1

\* line 252: the submit is one plain click on the button handle; threw tells
\* whether it raised.
SubmitClicks(threw) == << [how |-> "normal", threw |-> threw] >>

SearchEnded == spc \in {"returned", "raised", "cancelled"}

\* A faulty LoopGuard: one cycle too many.
LoopGuardOffByOne(a, m) == a <= m

\* A faulty LoopGuard: the loop never runs out.
LoopGuardAlways(a, m) == TRUE

\* line 144: while attempt < max_attempts
LoopGuard(a, m) == a < m

\* lines 256 and 278: if attempt < max_attempts (a reload is still worth it)
MayReload(a, m) == a < m

\* No request to the data endpoint was sent yet.
NoRequest == [auth |-> None, via |-> "none"]

\* The authorization header the page's own script put on a request: the
\* portal's page sends none.
OwnHeaders == {None}

\* lines 204-207: headers = req.headers.copy(); the cached token, when there
\* is one, replaces the authorization header.
RouteHeader(tok, own) == IF Truthy(tok) THEN tok ELSE own

\* lines 202-212: what _route_handler lets go for one request while the
\* cached token is tok: the request with the headers of lines 204-207, or,
\* when continuing with them raised, the request as the page made it.
RouteOutcomes(tok) ==
    { [auth |-> RouteHeader(tok, own), via |-> "headers"] : own \in OwnHeaders }
    \cup { [auth |-> own, via |-> "plain"] : own \in OwnHeaders }

\* One recovery step after a 401: what was done (act), the token values it
\* found (a: authorization header or storage item, t: total-control header)
\* and the cycles that were left when it was taken.
RecoveryStep(act, a, t, left) == [act |-> act, a |-> a, t |-> t, left |-> left]

\* search_company is not running: nothing of it is enabled.
IdleSearch ==
    /\ max_attempts = 0
    /\ attempt = 0
    /\ spc = "idle"
    /\ auth_token = None
    /\ n401 = 0
    /\ nrows = 0
    /\ idx = 0
    /\ slot = NonePayload
    /\ inflight = {}
    /\ debtors = <<>>
    /\ result = <<>>
    /\ cancelAt = 0
    /\ recov = <<>>
    /\ sent = NoRequest
    /\ seen = <<>>
    /\ slotRow = 0
    /\ namefield = <<>>
    /\ listeners = 0
    /\ routes = 0
    /\ clicked = <<>>
    /\ reading = {}
    /\ unheard = 0

\* lines 32-36 and 126-143: a fresh PGFNClient, search_company just called.
StartSearch ==
    /\ max_attempts \in 0..MaxAttempts
    /\ attempt = 0
    /\ spc = "loop"
    /\ auth_token = None
    /\ n401 = 0
    /\ nrows = 0
    /\ idx = 0
    /\ slot = NonePayload
    /\ inflight = {}
    /\ debtors = <<>>
    /\ result = <<>>
    /\ cancelAt = 0
    /\ recov = <<>>
    /\ sent = NoRequest
    /\ seen = <<>>
    /\ slotRow = 0
    /\ namefield = <<>>
    /\ listeners = 0
    /\ routes = 0
    /\ clicked = <<>>
    /\ reading = {}
    /\ unheard = 0

\* lines 144-223: a cycle starts; listener and route are re-installed.
SearchCycleStart ==
    /\ spc = "loop"
    /\ LoopGuard(attempt, max_attempts)
    /\ attempt' = attempt + 1
    /\ spc' = "type"
    /\ UNCHANGED <<max_attempts, auth_token, n401, nrows, idx, slot, inflight,
                   debtors, result, cancelAt>>
    /\ UNCHANGED <<recov, sent>>
    /\ seen' = <<>>
    /\ listeners' = ListenersAfter(listeners)
    /\ routes' = RoutesAfter(routes)
    /\ clicked' = <<>>
    /\ UNCHANGED <<slotRow, namefield>>
    /\ UNCHANGED <<reading, unheard>>
    /\ UNCHANGED nonSearchVars

\* lines 386-387: the while loop ran out.
SearchExhausted ==
    /\ spc = "loop"
    /\ ~LoopGuard(attempt, max_attempts)
    /\ result' = <<>>
    /\ spc' = "returned"
    /\ UNCHANGED <<max_attempts, attempt, auth_token, n401, nrows, idx, slot,
                   inflight, debtors, cancelAt>>
    /\ UNCHANGED <<recov, sent>>
    /\ seen' = <<>>
    /\ clicked' = <<>>
    /\ UNCHANGED <<slotRow, namefield, listeners, routes>>
    /\ UNCHANGED <<reading, unheard>>
    /\ UNCHANGED nonSearchVars

\* line 225: await self._human_type(...), outside any try.
SearchType ==
    /\ spc = "type"
    /\ \/ /\ spc' = "findbtn"
          /\ namefield' \in HumanType(NameQuery, namefield)
       \/ \* focus or a key press raises (the field is not followed then)
          /\ spc' = "raised"
          /\ namefield' = namefield
    /\ UNCHANGED <<max_attempts, attempt, auth_token, n401, nrows, idx, slot,
                   inflight, debtors, result, cancelAt>>
    /\ UNCHANGED <<recov, sent>>
    /\ UNCHANGED seen
    /\ UNCHANGED <<slotRow, listeners, routes, clicked>>
    /\ UNCHANGED <<reading, unheard>>
    /\ UNCHANGED nonSearchVars

\* lines 228-231: the Consultar button; a missing one ends the search.
SearchFindBtn ==
    /\ spc = "findbtn"
    /\ \E found \in BOOLEAN :
          IF found
          THEN spc' = "submit" /\ result' = result
          ELSE spc' = "returned" /\ result' = <<>>
    /\ UNCHANGED <<max_attempts, attempt, auth_token, n401, nrows, idx, slot,
                   inflight, debtors, cancelAt>>
    /\ UNCHANGED <<recov, sent>>
    /\ UNCHANGED seen
    /\ UNCHANGED <<slotRow, namefield, listeners, routes, clicked>>
    /\ UNCHANGED <<reading, unheard>>
    /\ UNCHANGED nonSearchVars

\* lines 249-261, except branch: btn.click() threw or no response in 30 s;
\* the request may have left the page all the same, and its answer may
\* still come, after the timeout, to the listener alone.
SearchSubmitFails ==
    /\ spc = "submit"
    /\ IF MayReload(attempt, max_attempts)
       THEN spc' = "reload_timeout" /\ result' = result
       ELSE spc' = "returned" /\ result' = <<>>
    /\ \/ sent' = sent /\ unheard' = unheard
       \/ /\ sent' \in RouteOutcomes(auth_token)
          /\ unheard' \in {unheard, unheard + 1}
    /\ recov' = <<>>
    /\ UNCHANGED <<max_attempts, attempt, auth_token, n401, nrows, idx, slot,
                   inflight, debtors, cancelAt>>
    /\ UNCHANGED seen
    /\ \E threw \in BOOLEAN : clicked' = SubmitClicks(threw)
    /\ UNCHANGED <<slotRow, namefield, listeners, routes>>
    /\ UNCHANGED reading
    /\ UNCHANGED nonSearchVars

\* lines 258-260: reload after a timeout; p.goto sits in the except handler.
SearchReloadTimeout ==
    /\ spc = "reload_timeout"
    /\ \/ \* the page is loaded anew: the name field is empty again
          /\ spc' = "loop"
          /\ namefield' = <<>>
       \/ /\ spc' = "raised"
          /\ namefield' = namefield
    /\ UNCHANGED <<max_attempts, attempt, auth_token, n401, nrows, idx, slot,
                   inflight, debtors, result, cancelAt>>
    /\ UNCHANGED <<recov, sent>>
    /\ UNCHANGED seen
    /\ clicked' = <<>>
    /\ UNCHANGED <<slotRow, listeners, routes>>
    /\ UNCHANGED <<reading, unheard>>
    /\ UNCHANGED nonSearchVars

\* Response headers of the data endpoint that can carry a token.
HeaderSets ==
    { [authorization |-> a, total_control |-> t] :
        a \in {None, <<"H">>}, t \in {None, <<"C">>} }

\* A faulty HeaderToken: the total-control header is not looked at.
HeaderTokenAuthOnly(h) == h.authorization

\* line 268: hdrs.get("authorization") or hdrs.get("total-control")
HeaderToken(h) ==
    IF Truthy(h.authorization) THEN h.authorization ELSE h.total_control

\* lines 160-163: the response listener caches an authorization header.
ListenerToken(h, tok) ==
    IF h.authorization # None THEN h.authorization ELSE tok

\* Statuses the data endpoint answers with.
Statuses == {401, 500, 200}

\* No second exchange.
NoExchange == [status |-> 0, authorization |-> None]

\* The portal may answer one submit with two exchanges that match the
\* predicate of line 250, a speculative one and an authoritative one.  These
\* are the second exchanges that have reached the listener by the time the
\* coroutine resumes from line 253; one that comes later is counted in
\* unheard.
LateExchanges ==
    {NoExchange}
    \cup { [status |-> st, authorization |-> a] :
             st \in Statuses, a \in {None, <<"H">>} }

\* The authorization header of an answer that reaches the listener late.
LateToken == [authorization |-> <<"H">>, total_control |-> None]

\* lines 202-212 and 249-290: the click's request passes the route handler
\* and is answered; expect_response hands over the first matching response
\* (the listener, registered before the waiter, has run for it), and its
\* status decides the branch.  A second exchange has reached the listener
\* too (late), is still under way (tardy), or does not exist.
SearchSubmitAnswered ==
    /\ spc = "submit"
    /\ sent' \in RouteOutcomes(auth_token)
    /\ \E status \in Statuses, h \in HeaderSets, late \in LateExchanges,
          tardy \in BOOLEAN :
          LET heard == ListenerToken(late, ListenerToken(h, auth_token))
          IN  /\ tardy => late = NoExchange
              /\ unheard' = IF tardy THEN unheard + 1 ELSE unheard
              /\ seen' = IF late = NoExchange THEN <<status>>
                         ELSE <<status, late.status>>
              /\ CASE status = 401 ->
                      /\ n401' = n401 + 1
                      /\ recov' = << RecoveryStep("header", h.authorization,
                                         h.total_control,
                                         max_attempts - attempt) >>
                      /\ IF Truthy(HeaderToken(h))
                         THEN auth_token' = HeaderToken(h) /\ spc' = "loop"
                         ELSE auth_token' = heard /\ spc' = "storage"
                   [] status = 200 ->
                      /\ n401' = n401
                      /\ recov' = <<>>
                      /\ auth_token' = heard
                      /\ spc' = "rows_query"
                   [] OTHER ->
                      /\ n401' = n401
                      /\ recov' = <<>>
                      /\ auth_token' = heard
                      /\ spc' = "loop"
              /\ namefield' = IF status = 200 THEN <<>> ELSE namefield
    /\ UNCHANGED <<max_attempts, attempt, nrows, idx, slot, inflight, debtors,
                   result, cancelAt>>
    /\ clicked' = SubmitClicks(FALSE)
    /\ UNCHANGED <<slotRow, listeners, routes>>
    /\ UNCHANGED reading
    /\ UNCHANGED nonSearchVars

\* lines 134-141: localStorage / sessionStorage; an exception reads as None.
StorageTokens == {None, <<"S">>}

\* lines 273-288: no token in the 401 response's headers.
SearchStorage ==
    /\ spc = "storage"
    /\ \E tok \in StorageTokens :
          /\ recov' = Append(recov, RecoveryStep("storage", tok, None,
                                                 max_attempts - attempt))
          /\ IF Truthy(tok)
             THEN auth_token' = tok /\ spc' = "loop" /\ result' = result
             ELSE /\ auth_token' = auth_token
                  /\ IF MayReload(attempt, max_attempts)
                     THEN spc' = "reload_401" /\ result' = result
                     ELSE spc' = "returned" /\ result' = <<>>
    /\ UNCHANGED <<max_attempts, attempt, n401, nrows, idx, slot, inflight,
                   debtors, cancelAt, sent>>
    /\ seen' = <<>>
    /\ clicked' = <<>>
    /\ UNCHANGED <<slotRow, namefield, listeners, routes>>
    /\ UNCHANGED <<reading, unheard>>
    /\ UNCHANGED nonSearchVars

\* lines 280-286: reload to force a token refresh, then read storage again.
SearchReload401 ==
    /\ spc = "reload_401"
    /\ LET reload == RecoveryStep("reload", None, None, max_attempts - attempt)
       IN  \E throws \in BOOLEAN, tok \in StorageTokens :
             IF throws
             THEN /\ spc' = "raised"
                  /\ auth_token' = auth_token
                  /\ recov' = Append(recov, reload)
                  /\ namefield' = namefield
             ELSE /\ spc' = "loop"
                  /\ namefield' = <<>>
                  /\ auth_token' = IF Truthy(tok) THEN tok ELSE auth_token
                  /\ recov' = recov \o << reload,
                                  RecoveryStep("storage", tok, None,
                                               max_attempts - attempt) >>
    /\ UNCHANGED <<max_attempts, attempt, n401, nrows, idx, slot, inflight,
                   debtors, result, cancelAt, sent>>
    /\ UNCHANGED seen
    /\ UNCHANGED <<slotRow, listeners, routes, clicked>>
    /\ UNCHANGED <<reading, unheard>>
    /\ UNCHANGED nonSearchVars

\* lines 290-298: resp.ok; the rendered rows are collected (tables of up
\* to MaxRows rows and up to MaxReads body reads).
SearchRowsQuery ==
    /\ spc = "rows_query"
    /\ \E n \in 0..MaxRows :
          /\ n * listeners <= MaxReads
          /\ nrows' = n
          /\ IF n > 0
             THEN spc' = "row_begin" /\ idx' = 1 /\ result' = result
             ELSE spc' = "returned" /\ idx' = idx /\ result' = <<>>
    /\ debtors' = <<>>
    /\ UNCHANGED <<max_attempts, attempt, auth_token, n401, slot, inflight,
                   cancelAt>>
    /\ UNCHANGED <<recov, sent>>
    /\ seen' = <<>>
    /\ clicked' = <<>>
    /\ UNCHANGED <<slotRow, namefield, listeners, routes>>
    /\ UNCHANGED <<reading, unheard>>
    /\ UNCHANGED nonSearchVars

\* lines 299 and 380-384: the row at idx is done.  The for loop goes to the
\* next row, or, after the last one, the records ds are deduplicated and
\* returned; nothing is awaited in between.
NextRow(ds) ==
    IF idx < nrows
    THEN spc' = "row_begin" /\ idx' = idx + 1 /\ result' = result
    ELSE spc' = "returned" /\ idx' = idx /\ result' = Dedup(ds, <<>>)

\* lines 299-305: the row's detail button is looked up; without one the
\* row is skipped, otherwise the slot is cleared before the click is
\* prepared.
SearchRowBegin ==
    /\ spc = "row_begin"
    /\ \E hasBtn \in BOOLEAN :
          IF hasBtn
          THEN /\ slot' = NonePayload
               /\ slotRow' = 0
               /\ spc' = "row_click"
               /\ idx' = idx
               /\ result' = result
          ELSE /\ slot' = slot
               /\ slotRow' = slotRow
               /\ NextRow(debtors)
    /\ UNCHANGED <<max_attempts, attempt, auth_token, n401, nrows, inflight,
                   debtors, cancelAt>>
    /\ UNCHANGED <<recov, sent>>
    /\ UNCHANGED seen
    /\ UNCHANGED <<namefield, listeners, routes, clicked>>
    /\ UNCHANGED <<reading, unheard>>
    /\ UNCHANGED nonSearchVars

\* line 349: the click on the row's detail button; its request passes the
\* route handler (lines 202-212) and the portal answers it later (what the
\* answer holds shows when it is read).  A throwing click lands in the
\* row's except clause (lines 377-378).
SearchRowClick ==
    /\ spc = "row_click"
    /\ \/ /\ inflight' = inflight \cup {[row |-> idx]}
          /\ sent' \in RouteOutcomes(auth_token)
          /\ spc' = "row_wait"
          /\ idx' = idx
          /\ result' = result
       \/ /\ inflight' = inflight
          /\ sent' = sent
          /\ NextRow(debtors)
    /\ UNCHANGED <<max_attempts, attempt, auth_token, n401, nrows, slot,
                   debtors, cancelAt, recov>>
    /\ UNCHANGED seen
    /\ UNCHANGED <<slotRow, namefield, listeners, routes, clicked>>
    /\ UNCHANGED <<reading, unheard>>
    /\ UNCHANGED nonSearchVars

\* lines 157-163, for the answer to a submit that comes after the coroutine
\* has gone on: the listener caches its authorization header.  The listener
\* stays registered, so this happens after the call has ended as well.
ExchangeArrive ==
    /\ unheard > 0
    /\ unheard' = unheard - 1
    /\ auth_token' = ListenerToken(LateToken, auth_token)
    /\ UNCHANGED <<max_attempts, attempt, spc, n401, nrows, idx, slot, inflight,
                   debtors, result, cancelAt>>
    /\ UNCHANGED <<recov, sent>>
    /\ UNCHANGED seen
    /\ UNCHANGED <<slotRow, namefield, listeners, routes, clicked, reading>>
    /\ UNCHANGED nonSearchVars

\* lines 157-191: a detail response reaches the page; every registered
\* listener runs for it, caches an authorization header (line 163) and
\* suspends in `await resp.json()`.
DetailArrive ==
    /\ \E m \in inflight, h \in {x \in HeaderSets : x.total_control = None} :
          /\ inflight' = inflight \ {m}
          /\ auth_token' = ListenerToken(h, auth_token)
          /\ reading' = reading \cup {[row |-> m.row, data |-> Unread,
                                       left |-> listeners]}
    /\ UNCHANGED <<max_attempts, attempt, spc, n401, nrows, idx, slot,
                   debtors, result, cancelAt>>
    /\ UNCHANGED <<recov, sent>>
    /\ UNCHANGED seen
    /\ UNCHANGED <<slotRow, namefield, listeners, routes, clicked, unheard>>
    /\ UNCHANGED nonSearchVars

\* lines 191-195: one listener resumes from `await resp.json()` and stores
\* the body, unless it is not JSON.  The first listener to resume shows
\* what the response holds; the others read the same body.
DetailBody ==
    /\ \E m \in reading :
        \E p \in (IF m.data = Unread THEN Payloads ELSE {m.data}) :
          /\ reading' = IF m.left > 1
                         THEN (reading \ {m})
                                  \cup {[row |-> m.row, data |-> p,
                                         left |-> m.left - 1]}
                         ELSE reading \ {m}
          /\ slot' = IF p.kind = "notjson" THEN slot ELSE p
          /\ slotRow' = IF p.kind = "notjson" THEN slotRow ELSE m.row
    /\ UNCHANGED <<max_attempts, attempt, spc, auth_token, n401, nrows, idx,
                   inflight, debtors, result, cancelAt>>
    /\ UNCHANGED <<recov, sent>>
    /\ UNCHANGED seen
    /\ UNCHANGED <<namefield, listeners, routes, clicked, unheard>>
    /\ UNCHANGED nonSearchVars

\* lines 355-372: the poll loop found a payload; a record is appended, or
\* .get on a non-dict raises into the row's except clause.
SearchRowExtract ==
    /\ spc = "row_wait"
    /\ PayloadTruthy(slot)
    /\ IF slot.kind = "dict"
       THEN /\ debtors' = Append(debtors, DebtorRow(slot))
            /\ idx' = idx
            /\ spc' = "row_close"
            /\ result' = result
       ELSE /\ debtors' = debtors
            /\ NextRow(debtors)
    /\ UNCHANGED <<max_attempts, attempt, auth_token, n401, nrows, slot,
                   inflight, cancelAt>>
    /\ UNCHANGED <<recov, sent>>
    /\ UNCHANGED seen
    /\ UNCHANGED <<slotRow, namefield, listeners, routes, clicked>>
    /\ UNCHANGED <<reading, unheard>>
    /\ UNCHANGED nonSearchVars

\* lines 373-378: the modal's close button is looked up and clicked; an
\* exception ends the row as well.
SearchRowClose ==
    /\ spc = "row_close"
    /\ NextRow(debtors)
    /\ UNCHANGED <<max_attempts, attempt, auth_token, n401, nrows, slot,
                   inflight, debtors, cancelAt>>
    /\ UNCHANGED <<recov, sent>>
    /\ UNCHANGED seen
    /\ UNCHANGED <<slotRow, namefield, listeners, routes, clicked>>
    /\ UNCHANGED <<reading, unheard>>
    /\ UNCHANGED nonSearchVars

\* lines 355-360: the 40 polls passed with the slot still falsy.
SearchRowTimeout ==
    /\ spc = "row_wait"
    /\ ~PayloadTruthy(slot)
    /\ NextRow(debtors)
    /\ UNCHANGED <<max_attempts, attempt, auth_token, n401, nrows, slot,
                   inflight, debtors, cancelAt>>
    /\ UNCHANGED <<recov, sent>>
    /\ UNCHANGED seen
    /\ UNCHANGED <<slotRow, namefield, listeners, routes, clicked>>
    /\ UNCHANGED <<reading, unheard>>
    /\ UNCHANGED nonSearchVars

\* asyncio cancels the task while it is suspended in the row loop (the
\* awaits of lines 301, 308-349, 352-358 and 373-376): CancelledError is a
\* BaseException, so `except Exception` (line 377) does not catch it and it
\* leaves search_company.
SearchCancel ==
    /\ spc \in {"row_begin", "row_click", "row_wait", "row_close"}
    /\ cancelAt' = idx
    /\ spc' = "cancelled"
    /\ UNCHANGED <<max_attempts, attempt, auth_token, n401, nrows, idx, slot,
                   inflight, debtors, result>>
    /\ UNCHANGED <<recov, sent>>
    /\ UNCHANGED seen
    /\ UNCHANGED <<slotRow, namefield, listeners, routes, clicked>>
    /\ UNCHANGED <<reading, unheard>>
    /\ UNCHANGED nonSearchVars

\* ------------------------------------------ _solve_hcaptcha_with_2captcha
\* str.lower() on the letters the pages below use.
LowerChar(c) ==
    CASE c = "H" -> "h"
      [] c = "C" -> "c"
      [] c = "A" -> "a"
      [] c = "P" -> "p"
      [] c = "T" -> "t"
      [] OTHER -> c

Lower(s) == [i \in 1..Len(s) |-> LowerChar(s[i])]

\* `sub in s`
Contains(s, sub) ==
    \E i \in 1..(Len(s) - Len(sub) + 1) : SubSeq(s, i, i + Len(sub) - 1) = sub

\* What page.content() may return: a page without a challenge, and pages
\* that mention hCaptcha, HCAPTCHA and recaptcha.
Pages ==
    { <<"l", "i", "s", "t", "a">>,
      <<"h", "C", "a", "p", "t", "c", "h", "a">>,
      <<"H", "C", "A", "P", "T", "C", "H", "A">>,
      <<"r", "e", "c", "a", "p", "t", "c", "h", "a">> }

\* A faulty NoCaptchaDetected: the early return is never taken.
NoCaptchaNever(c) == FALSE

\* lines 126-127: "hcaptcha" not in content and "captcha" not in content
NoCaptchaDetected(c) ==
    /\ ~Contains(Lower(c), <<"h", "c", "a", "p", "t", "c", "h", "a">>)
    /\ ~Contains(Lower(c), <<"c", "a", "p", "t", "c", "h", "a">>)

\* lines 82-86: validate is False, so the hardcoded sitekey comes back.
DetectSitekey == <<"f", "8", "c", "1">>

\* line 233: run() calls the adapter with retries=2 (also the default, line 114).
Retries == 2

\* result.get("code") of a successful solver call.
SolverTokens == {<<"k">>}

\* localStorage/sessionStorage 'auth_token', or '' (line 197).
StoredAuth == {<<>>, <<"a">>}

\* The adapter is not running.
IdleAdapter ==
    /\ apc = "idle"
    /\ content = <<>>
    /\ a_attempt = 0
    /\ solverCalls = 0
    /\ a_token = None
    /\ field = None
    /\ a_result = <<>>
    /\ a_outcome = "none"
    /\ a_auth = None
    /\ a_injected = None

\* lines 126-139: read the page; without a marker return success at once.
AdapterDetect ==
    /\ apc = "start"
    /\ \/ \E c \in Pages :
            /\ content' = c
            /\ IF NoCaptchaDetected(c)
               THEN apc' = "returned" /\ a_result' = <<TRUE, None, None>>
               ELSE IF ~Truthy(DetectSitekey)
               THEN apc' = "returned" /\ a_result' = <<FALSE, None, None>>
               ELSE apc' = "loop" /\ a_result' = a_result
       \/ \* page.content() raises
          /\ apc' = "raised"
          /\ UNCHANGED <<content, a_result>>
    /\ UNCHANGED <<a_attempt, solverCalls, a_token, field, a_outcome, a_auth,
                   a_injected>>
    /\ UNCHANGED nonAdapterVars

\* A faulty SolveGuard: one attempt too many.
SolveGuardOneMore(a, r) == a <= r + 1

\* line 141: while attempt <= retries
SolveGuard(a, r) == a <= r

\* lines 141-153 and 213-214: one more solver call; an exception or an
\* empty code goes back to the loop head.
AdapterSolve ==
    /\ apc = "loop"
    /\ SolveGuard(a_attempt, Retries)
    /\ a_attempt' = a_attempt + 1
    /\ solverCalls' = solverCalls + 1
    /\ \/ \E t \in SolverTokens :
            a_token' = t /\ apc' = "inject" /\ a_outcome' = "pending"
       \/ \* result.get("code") is None or ""
          \E t \in {None, <<>>} :
            a_token' = t /\ apc' = "loop" /\ a_outcome' = "empty"
       \/ \* solver.hcaptcha raises
          a_token' = a_token /\ apc' = "loop" /\ a_outcome' = "error"
    /\ UNCHANGED <<content, field, a_result, a_auth, a_injected>>
    /\ UNCHANGED nonAdapterVars

\* lines 155-193: human-like pause, then the token is written into the
\* response textareas; an exception of any primitive goes to the loop head.
AdapterInject ==
    /\ apc = "inject"
    /\ \/ field' = a_token /\ apc' = "verify" /\ a_outcome' = a_outcome
       \/ field' = field /\ apc' = "loop" /\ a_outcome' = "error"
    /\ UNCHANGED <<content, a_attempt, solverCalls, a_token, a_result, a_auth,
                   a_injected>>
    /\ UNCHANGED nonAdapterVars

\* What a script of the page may leave in the response field: nothing, or
\* a value of its own.
PageScriptValues == {<<>>, <<"z">>}

\* A script of the page resets the injected field while the adapter is
\* suspended in one of the awaits of lines 193-204.
PageScriptReset ==
    /\ apc \in {"verify", "readback", "cookies"}
    /\ Truthy(field)
    /\ \E v \in PageScriptValues \ {field} : field' = v
    /\ UNCHANGED <<apc, content, a_attempt, solverCalls, a_token, a_result,
                   a_outcome, a_auth, a_injected>>
    /\ UNCHANGED nonAdapterVars

\* lines 193-200: after the pause the stored auth token is read.
AdapterReadAuth ==
    /\ apc = "verify"
    /\ \/ \E auth \in StoredAuth :
            apc' = "readback" /\ a_auth' = auth /\ a_outcome' = a_outcome
       \/ \* wait_for_timeout or page.evaluate raises
          apc' = "loop" /\ a_auth' = a_auth /\ a_outcome' = "error"
    /\ UNCHANGED <<content, a_attempt, solverCalls, a_token, field, a_result,
                   a_injected>>
    /\ UNCHANGED nonAdapterVars

\* line 203: the response field is read back.
AdapterReadBack ==
    /\ apc = "readback"
    /\ \/ apc' = "cookies" /\ a_injected' = field /\ a_outcome' = a_outcome
       \/ \* page.evaluate raises
          apc' = "loop" /\ a_injected' = a_injected /\ a_outcome' = "error"
    /\ UNCHANGED <<content, a_attempt, solverCalls, a_token, field, a_result,
                   a_auth>>
    /\ UNCHANGED nonAdapterVars

\* lines 204-211: the cookies are read; then a non-empty read-back is
\* success, anything else another attempt.
AdapterVerify ==
    /\ apc = "cookies"
    /\ \/ IF Truthy(a_injected)
          THEN /\ apc' = "returned"
               /\ a_result' = <<TRUE, a_injected, a_auth>>
               /\ a_outcome' = "verified"
          ELSE /\ apc' = "loop"
               /\ a_result' = a_result
               /\ a_outcome' = "readback"
       \/ \* context.cookies raises
          apc' = "loop" /\ a_result' = a_result /\ a_outcome' = "error"
    /\ UNCHANGED <<content, a_attempt, solverCalls, a_token, field, a_auth,
                   a_injected>>
    /\ UNCHANGED nonAdapterVars

\* lines 141 and 216-217: the attempts are used up.
AdapterGiveUp ==
    /\ apc = "loop"
    /\ ~SolveGuard(a_attempt, Retries)
    /\ apc' = "returned"
    /\ a_result' = <<FALSE, None, None>>
    /\ UNCHANGED <<content, a_attempt, solverCalls, a_token, field, a_outcome,
                   a_auth, a_injected>>
    /\ UNCHANGED nonAdapterVars

NextAdapter ==
    \/ AdapterDetect
    \/ AdapterSolve
    \/ AdapterInject
    \/ PageScriptReset
    \/ AdapterReadAuth
    \/ AdapterReadBack
    \/ AdapterVerify
    \/ AdapterGiveUp

\* ------------------------------------------------------------------- run
\* line 14: the module-level api_key is a non-empty literal.
ApiKeySet == TRUE

\* line 233: `solved, auth_token = ...` has two targets.
UnpackTargets == 2

RunEnded == rpc = "exited"

IdleRun ==
    /\ rpc = "idle"
    /\ ctx = FALSE
    /\ reached = {}
    /\ exitCode = 0
    /\ tornDown = FALSE

\* line 221: run() was just called.
StartRun ==
    /\ rpc = "setup"
    /\ ctx = FALSE
    /\ reached = {}
    /\ exitCode = 0
    /\ tornDown = FALSE

\* lines 223-225: output directory, database, browser launch.
RunSetup ==
    /\ rpc = "setup"
    /\ reached' = reached \cup {"setup"}
    /\ \E ok \in BOOLEAN :
          IF ok
          THEN ctx' = TRUE /\ rpc' = "open"
          ELSE ctx' = ctx /\ rpc' = "fatal"
    /\ UNCHANGED <<exitCode, tornDown>>
    /\ UNCHANGED <<searchVars, adapterVars, emitVars, unitVars>>

\* lines 228-229: PGFNClient(ctx).open() loads the first portal's entry page.
RunOpen ==
    /\ rpc = "open"
    /\ \E ok \in BOOLEAN :
          IF ok
          THEN reached' = reached \cup {"session"} /\ rpc' = "captcha"
          ELSE reached' = reached /\ rpc' = "fatal"
    /\ UNCHANGED <<ctx, exitCode, tornDown>>
    /\ UNCHANGED <<searchVars, adapterVars, emitVars, unitVars>>

\* lines 231-233: api_key is set, so the adapter is called.
RunCallAdapter ==
    /\ rpc = "captcha"
    /\ reached' = reached \cup {"captcha"}
    /\ IF ApiKeySet
       THEN rpc' = "in_adapter" /\ apc' = "start"
       ELSE rpc' = "search" /\ apc' = apc
    /\ UNCHANGED <<ctx, exitCode, tornDown>>
    /\ UNCHANGED <<content, a_attempt, solverCalls, a_token, field, a_result,
                   a_outcome, a_auth, a_injected>>
    /\ UNCHANGED <<searchVars, emitVars, unitVars>>

\* line 233: the adapter's 3-tuple is unpacked into two names, which raises
\* ValueError; an exception of the adapter itself arrives here as well.
\* Only a 2-tuple would let run() go on to search_company (line 242).
RunAdapterDone ==
    /\ rpc = "in_adapter"
    /\ apc \in {"returned", "raised"}
    /\ IF apc = "returned" /\ Len(a_result) = UnpackTargets
       THEN rpc' = "search" /\ reached' = reached \cup {"search"}
       ELSE rpc' = "fatal" /\ reached' = reached
    /\ UNCHANGED <<ctx, exitCode, tornDown>>
    /\ UNCHANGED <<searchVars, adapterVars, emitVars, unitVars>>

\* lines 273-275: except Exception: log, sys.exit(1).
RunFatal ==
    /\ rpc = "fatal"
    /\ exitCode' = 1
    /\ rpc' = "finally"
    /\ UNCHANGED <<ctx, reached, tornDown>>
    /\ UNCHANGED <<searchVars, adapterVars, emitVars, unitVars>>

\* lines 276-289: finally: close context, browser and driver when ctx is set.
RunFinally ==
    /\ rpc = "finally"
    /\ tornDown' = ctx
    /\ rpc' = "exited"
    /\ UNCHANGED <<ctx, reached, exitCode>>
    /\ UNCHANGED <<searchVars, adapterVars, emitVars, unitVars>>

NextRun ==
    \/ RunSetup
    \/ RunOpen
    \/ RunCallAdapter
    \/ NextAdapter
    \/ RunAdapterDone
    \/ RunFatal
    \/ RunFinally

\* ------------------------------------------------------ RegularizeClient
RECURSIVE Replace(_, _, _)
\* str.replace(a, b) for one-character a and b.
Replace(s, a, b) ==
    IF s = <<>> THEN <<>>
    ELSE <<IF Head(s) = a THEN b ELSE Head(s)>> \o Replace(Tail(s), a, b)

\* lines 97 and 111: f"DARF_{cnpj}_{inscricao.replace(' ', '_').replace('/', '-')}.pdf"
Fname(c, i) ==
    <<"D", "A", "R", "F", "_">> \o c \o <<"_">>
        \o Replace(Replace(i, " ", "_"), "/", "-") \o <<".", "p", "d", "f">>

\* open(target, "wb").write(data) / download.save_as(target)
WriteFile(fs, path, data) ==
    {f \in fs : f.path # path} \cup {[path |-> path, data |-> data]}

\* resp.body() raised.
BodyFail == <<"<fail>">>

\* Bodies of PDF responses: two documents, an empty body, an unreadable one.
PdfBodies == {<<"x">>, <<"y">>, <<>>, BodyFail}

\* Bytes of a download event.
DownloadBytes == {<<"d">>}

\* Arguments the calls are tried with (digits only; text with '_', ' ' and
\* '/').
Cnpjs == {<<"1", "1">>, <<"2", "2">>}

Inscs == {<<"7", "_", "8">>, <<"7", " ", "8">>, <<"7", "/", "8">>}

NoEmitResult == [status |-> "none", path |-> None]

\* No RegularizeClient exists.
IdleEmit ==
    /\ epc = "closed"
    /\ calls = 0
    /\ e_cnpj = None
    /\ e_insc = None
    /\ e_btn = 0
    /\ e_download = None
    /\ e_path = None
    /\ last_pdf_bytes = None
    /\ pending = {}
    /\ arrivals = 0
    /\ files = {}
    /\ e_result = NoEmitResult
    /\ downloadFired = FALSE
    /\ delivered = {}

\* lines 13-40: __init__ and open(): listener attached, entry page loaded.
StartEmit ==
    /\ epc = "ready"
    /\ calls = 0
    /\ e_cnpj = None
    /\ e_insc = None
    /\ e_btn = 0
    /\ e_download = None
    /\ e_path = None
    /\ last_pdf_bytes = None
    /\ pending = {}
    /\ arrivals = 0
    /\ files = {}
    /\ e_result = NoEmitResult
    /\ downloadFired = FALSE
    /\ delivered = {}

\* lines 25-29: a response with a PDF content type reaches on_response,
\* which suspends in `await resp.body()`.
PdfArrive ==
    /\ epc # "closed"
    /\ arrivals < MaxResponses
    /\ arrivals' = arrivals + 1
    /\ \E b \in PdfBodies :
          pending' = pending \cup {[seq |-> arrivals + 1, body |-> b]}
    /\ UNCHANGED <<epc, calls, e_cnpj, e_insc, e_btn, e_download, e_path,
                   last_pdf_bytes, files, e_result, downloadFired, delivered>>
    /\ UNCHANGED nonEmitVars

\* What on_response stores once the body read has ended.
StoredBytes(body) == IF body = BodyFail THEN None ELSE body

\* lines 30-34: the body read of one suspended on_response ends; the bytes
\* are stored, or None when the read raised.
PdfBodyDone ==
    /\ \E m \in pending :
          /\ pending' = pending \ {m}
          /\ last_pdf_bytes' = StoredBytes(m.body)
          /\ delivered' = IF m.body # BodyFail /\ m.body # <<>>
                          THEN delivered \cup {m.body} ELSE delivered
    /\ UNCHANGED <<epc, calls, e_cnpj, e_insc, e_btn, e_download, e_path,
                   arrivals, files, e_result, downloadFired>>
    /\ UNCHANGED nonEmitVars

\* lines 42-45: emitir_darf_integral is called.
EmitCall ==
    /\ epc = "ready"
    /\ calls < MaxCalls
    /\ calls' = calls + 1
    /\ \E c \in Cnpjs, i \in Inscs : e_cnpj' = c /\ e_insc' = i
    /\ e_btn' = 0
    /\ e_download' = None
    /\ e_path' = None
    /\ e_result' = NoEmitResult
    /\ downloadFired' = FALSE
    /\ epc' = "fill_cnpj"
    /\ UNCHANGED <<last_pdf_bytes, pending, arrivals, files, delivered>>
    /\ UNCHANGED nonEmitVars

\* lines 75-85: fill both fields, click Consultar, wait, click Emitir DARF
\* integral; safe_fill and safe_click swallow every exception and their
\* results are not looked at.
EmitForm ==
    /\ epc \in {"fill_cnpj", "fill_insc", "consultar", "emitir"}
    /\ epc' = CASE epc = "fill_cnpj" -> "fill_insc"
                [] epc = "fill_insc" -> "consultar"
                [] epc = "consultar" -> "emitir"
                [] OTHER -> "imprimir"
    /\ e_btn' = IF epc = "emitir" THEN 1 ELSE e_btn
    /\ UNCHANGED <<calls, e_cnpj, e_insc, e_download, e_path, last_pdf_bytes,
                   pending, arrivals, files, e_result, downloadFired,
                   delivered>>
    /\ UNCHANGED nonEmitVars

\* lines 91-96 and 103-105: one Imprimir selector; when it matches, click
\* with a download observer armed.  No match, an exception or a timeout
\* moves on to the next selector.
EmitImprimir ==
    /\ epc = "imprimir"
    /\ \/ \E d \in DownloadBytes :
            /\ e_download' = d
            /\ downloadFired' = TRUE
            /\ epc' = "saving"
            /\ e_btn' = e_btn
       \/ /\ e_download' = e_download
          /\ downloadFired' = downloadFired
          /\ epc' = IF e_btn = 2 THEN "fallback" ELSE "imprimir"
          /\ e_btn' = IF e_btn = 2 THEN e_btn ELSE e_btn + 1
    /\ UNCHANGED <<calls, e_cnpj, e_insc, e_path, last_pdf_bytes, pending,
                   arrivals, files, e_result, delivered>>
    /\ UNCHANGED nonEmitVars

\* lines 97-105: the download is saved under the file name and the loop is
\* left; when save_as raises, the next selector is tried.
EmitSave ==
    /\ epc = "saving"
    /\ \/ /\ files' = WriteFile(files, Fname(e_cnpj, e_insc), e_download)
          /\ e_path' = Fname(e_cnpj, e_insc)
          /\ epc' = "fallback"
          /\ e_btn' = e_btn
       \/ /\ files' = files
          /\ e_path' = e_path
          /\ epc' = IF e_btn = 2 THEN "fallback" ELSE "imprimir"
          /\ e_btn' = IF e_btn = 2 THEN e_btn ELSE e_btn + 1
    /\ UNCHANGED <<calls, e_cnpj, e_insc, e_download, last_pdf_bytes, pending,
                   arrivals, e_result, downloadFired, delivered>>
    /\ UNCHANGED nonEmitVars

\* A faulty UseInline: captured bytes are written whether or not a download
\* was saved.
UseInlineAlways(path, bytes) == Truthy(bytes)

\* line 110: if pdf_path is None and self._last_pdf_bytes
UseInline(path, bytes) == path = None /\ Truthy(bytes)

\* lines 109-121 (no await in them): write the captured bytes when there was
\* no download; raise when there is still no file, else return its path.
EmitFallback ==
    /\ epc = "fallback"
    /\ LET inline == UseInline(e_path, last_pdf_bytes)
           path == IF inline THEN Fname(e_cnpj, e_insc) ELSE e_path
       IN  /\ files' = IF inline
                       THEN WriteFile(files, path, last_pdf_bytes)
                       ELSE files
           /\ e_path' = path
           /\ e_result' = IF path = None
                          THEN [status |-> "raised", path |-> None]
                          ELSE [status |-> "path", path |-> path]
    /\ epc' = "ready"
    /\ UNCHANGED <<calls, e_cnpj, e_insc, e_btn, e_download, last_pdf_bytes,
                   pending, arrivals, downloadFired, delivered>>
    /\ UNCHANGED nonEmitVars

NextEmit ==
    \/ PdfArrive
    \/ PdfBodyDone
    \/ EmitCall
    \/ EmitForm
    \/ EmitImprimir
    \/ EmitSave
    \/ EmitFallback

\* --------------------------------- the form steps of emitir_darf_integral
\* An <input> of the page: its name and id attributes, and type="text".
Input(n, i) == [name |-> n, id |-> i, type |-> "text"]

\* A <button> of the page: its text, and whether it has type="submit".
Button(t, sub) == [text |-> t, submit |-> sub]

\* input[name='v'], input[id*='v'], input[type='v']
ByName(v) == [by |-> "name", val |-> v]

ByIdPart(v) == [by |-> "id*", val |-> v]

ByType(v) == [by |-> "type", val |-> v]

\* button:has-text('v'), text=v, button[type='submit']
HasText(v) == [by |-> "has-text", val |-> v]

TextIs(v) == [by |-> "text", val |-> v]

SubmitButton == [by |-> "submit", val |-> ""]

\* line 75: the candidates for the identifier
CnpjSelectors ==
    << ByName("cpfCnpj"), ByIdPart(<<"c", "p", "f">>), ByType("text") >>

\* line 78: the candidates for the inscription number
InscSelectors ==
    << ByName("inscricao"), ByIdPart(<<"i", "n", "s", "c", "r">>),
       ByType("text") >>

\* line 81
ConsultarSelectors ==
    << HasText("Consultar"), TextIs("Consultar"), SubmitButton >>

\* line 85
EmitirSelectors ==
    << HasText("Emitir DARF integral"), TextIs("Emitir DARF integral") >>

\* Whether a selector matches an input.
MatchesInput(sel, inp) ==
    CASE sel.by = "name" -> inp.name = sel.val
      [] sel.by = "id*" -> Contains(inp.id, sel.val)
      [] sel.by = "type" -> inp.type = sel.val
      [] OTHER -> FALSE

\* Whether a selector matches a button.
MatchesButton(sel, b) ==
    CASE sel.by \in {"has-text", "text"} -> b.text = sel.val
      [] sel.by = "submit" -> b.submit
      [] OTHER -> FALSE

\* loc.nth(n) on the elements at the positions S of the page, document order.
Nth(S, n) == CHOOSE i \in S : Cardinality({j \in S : j < i}) = n

\* What one form step did: whether it returned True, which candidate won
\* (0 for none) and which element of the page it acted on (0 for none).
StepResult(ok, sel, at) == [ok |-> ok, sel |-> sel, at |-> at]

\* lines 52-55: with several matches the second one is filled.
FillTarget(found) ==
    IF Cardinality(found) > 1 THEN Nth(found, 1) ELSE Nth(found, 0)

RECURSIVE SafeFill(_, _, _, _)
\* lines 47-60: safe_fill from candidate k on; throws holds the candidates
\* at which count() or fill() raises (line 58 goes on to the next one).
SafeFill(inputs, sels, k, throws) ==
    IF k > Len(sels) THEN StepResult(FALSE, 0, 0)
    ELSE LET found == {i \in 1..Len(inputs) : MatchesInput(sels[k], inputs[i])}
         IN  IF found # {} /\ k \notin throws
             THEN StepResult(TRUE, k, FillTarget(found))
             ELSE SafeFill(inputs, sels, k + 1, throws)

RECURSIVE SafeClick(_, _, _, _)
\* lines 62-72: safe_click from candidate k on; loc.click() raises when the
\* locator matches more than one element, and at the candidates in throws.
SafeClick(buttons, sels, k, throws) ==
    IF k > Len(sels) THEN StepResult(FALSE, 0, 0)
    ELSE LET found == {i \in 1..Len(buttons) : MatchesButton(sels[k], buttons[i])}
         IN  IF Cardinality(found) = 1 /\ k \notin throws
             THEN StepResult(TRUE, k, Nth(found, 0))
             ELSE SafeClick(buttons, sels, k + 1, throws)

\* The inputs the page may show: the two named fields, fields known by
\* their id, two or one text inputs without name and id, none.
DomInputs ==
    { << Input("cpfCnpj", <<>>), Input("inscricao", <<>>) >>,
      << Input("", <<"c", "p", "f", "1">>), Input("", <<"i", "n", "s", "c", "r">>) >>,
      << Input("", <<>>), Input("", <<>>) >>,
      << Input("", <<>>) >>,
      <<>> }

\* The buttons the page may show.
DomButtons ==
    { << Button("Consultar", TRUE), Button("Emitir DARF integral", FALSE) >>,
      << Button("Consultar", TRUE) >>,
      << Button("Emitir DARF integral", FALSE) >>,
      <<>> }

Doms == { [inputs |-> i, buttons |-> b] : i \in DomInputs, b \in DomButtons }

NoPage == [inputs |-> <<>>, buttons |-> <<>>]

\* The candidates a step may raise at.
Throws == SUBSET (1..3)

\* The form steps are not followed.
IdleForm ==
    /\ dom = NoPage
    /\ form = <<>>
    /\ flog = <<>>

\* lines 20-40: the page of the second portal is loaded, its inputs empty.
StartForm ==
    /\ dom \in Doms
    /\ form = [i \in 1..Len(dom.inputs) |-> <<>>]
    /\ flog = <<>>

\* lines 42-45: emitir_darf_integral is called on the page just loaded.
FormCall ==
    /\ epc = "ready"
    /\ calls = 0
    /\ calls' = calls + 1
    /\ \E c \in Cnpjs, i \in Inscs : e_cnpj' = c /\ e_insc' = i
    /\ e_btn' = 0
    /\ e_download' = None
    /\ e_path' = None
    /\ e_result' = NoEmitResult
    /\ downloadFired' = FALSE
    /\ epc' = "fill_cnpj"
    /\ flog' = <<>>
    /\ UNCHANGED <<last_pdf_bytes, pending, arrivals, files, delivered, dom,
                   form>>
    /\ UNCHANGED <<searchVars, adapterVars, runVars, floatVars, typeVars>>

\* lines 75 and 78: safe_fill with the identifier, then with the inscription
\* number; what it returns is dropped.
FormFill ==
    /\ epc \in {"fill_cnpj", "fill_insc"}
    /\ \E throws \in Throws :
          LET r == SafeFill(dom.inputs,
                            IF epc = "fill_cnpj" THEN CnpjSelectors
                            ELSE InscSelectors, 1, throws)
              value == IF epc = "fill_cnpj" THEN e_cnpj ELSE e_insc
          IN  /\ form' = IF r.ok THEN [form EXCEPT ![r.at] = value] ELSE form
              /\ flog' = Append(flog, r)
    /\ epc' = IF epc = "fill_cnpj" THEN "fill_insc" ELSE "consultar"
    /\ UNCHANGED <<calls, e_cnpj, e_insc, e_btn, e_download, e_path,
                   last_pdf_bytes, pending, arrivals, files, e_result,
                   downloadFired, delivered, dom>>
    /\ UNCHANGED <<searchVars, adapterVars, runVars, floatVars, typeVars>>

\* lines 81-85: safe_click on Consultar, a pause, safe_click on Emitir DARF
\* integral; what they return is dropped.
FormClick ==
    /\ epc \in {"consultar", "emitir"}
    /\ \E throws \in Throws :
          flog' = Append(flog,
                    SafeClick(dom.buttons,
                              IF epc = "consultar" THEN ConsultarSelectors
                              ELSE EmitirSelectors, 1, throws))
    /\ epc' = IF epc = "consultar" THEN "emitir" ELSE "imprimir"
    /\ e_btn' = IF epc = "emitir" THEN 1 ELSE e_btn
    /\ UNCHANGED <<calls, e_cnpj, e_insc, e_download, e_path, last_pdf_bytes,
                   pending, arrivals, files, e_result, downloadFired,
                   delivered, dom, form>>
    /\ UNCHANGED <<searchVars, adapterVars, runVars, floatVars, typeVars>>

\* One call with its form steps followed on the page, then the acquisition
\* of lines 87-121.
NextForm ==
    \/ FormCall
    \/ FormFill
    \/ FormClick
    \/ EmitImprimir
    \/ EmitSave
    \/ EmitFallback

\* -------------------------------------------------------- _to_float_safe
\* Values: a str is a tuple of characters, an int is <<"int", n>>, a float
\* is <<"float", n, k>> and stands for n / 10^k.
Digits == {"0", "1", "2", "3", "4", "5", "6", "7", "8", "9"}

DigitVal(c) ==
    CASE c = "0" -> 0 [] c = "1" -> 1 [] c = "2" -> 2 [] c = "3" -> 3
      [] c = "4" -> 4 [] c = "5" -> 5 [] c = "6" -> 6 [] c = "7" -> 7
      [] c = "8" -> 8 [] OTHER -> 9

RECURSIVE MakeFloat(_, _)
\* The float n / 10^k; trailing zeros of the fraction carry no value.
MakeFloat(n, k) ==
    IF k > 0 /\ n % 10 = 0 THEN MakeFloat(n \div 10, k - 1)
    ELSE <<"float", n, k>>

\* isinstance(val, (int, float))
IsNumber(val) == val # <<>> /\ val[1] \in {"int", "float"}

\* float(val) of an int or a float
FloatOfNumber(val) == IF val[1] = "int" THEN MakeFloat(val[2], 0) ELSE val

RECURSIVE Remove(_, _)
\* str.replace(a, '') for a one-character a.
Remove(s, a) ==
    IF s = <<>> THEN <<>>
    ELSE (IF Head(s) = a THEN <<>> ELSE <<Head(s)>>) \o Remove(Tail(s), a)

RECURSIVE DigitsValue(_, _)
\* The integer a run of decimal digits denotes.
DigitsValue(s, acc) ==
    IF s = <<>> THEN acc
    ELSE DigitsValue(Tail(s), 10 * acc + DigitVal(Head(s)))

AllDigits(s) == \A i \in 1..Len(s) : s[i] \in Digits

\* float(s) raised ValueError.
ValueError == <<"<ValueError>">>

\* float(s) of a str made of digits, '.', ',', blanks and letters that spell
\* neither inf nor nan: blanks around the number are ignored, then the text
\* must be digits, digits '.' [digits] or '.' digits.
ParseFloat(s) ==
    LET t == Strip(s)
        dots == {i \in 1..Len(t) : t[i] = "."}
    IN  IF t = <<>> \/ Cardinality(dots) > 1 THEN ValueError
        ELSE IF dots = {}
        THEN IF AllDigits(t) THEN MakeFloat(DigitsValue(t, 0), 0)
             ELSE ValueError
        ELSE LET d == CHOOSE i \in dots : TRUE
                 ip == SubSeq(t, 1, d - 1)
                 fp == SubSeq(t, d + 1, Len(t))
             IN  IF AllDigits(ip) /\ AllDigits(fp) /\ ip \o fp # <<>>
                 THEN MakeFloat(DigitsValue(ip \o fp, 0), Len(fp))
                 ELSE ValueError

\* A faulty Regional: the thousands dots are left in.
RegionalKeepsDots(s) == Replace(s, ",", ".")

\* line 25: s.replace('.', '').replace(',', '.')
Regional(s) == Replace(Remove(s, "."), ",", ".")

\* lines 18-28: _to_float_safe(val)
ToFloatSafe(val) ==
    IF val = None THEN None
    ELSE IF IsNumber(val) THEN FloatOfNumber(val)
    ELSE LET r == ParseFloat(Regional(Strip(val)))
         IN  IF r = ValueError THEN None ELSE r

\* Length of the longest text drawn from FloatAlphabet.
MaxLen == 3

FloatAlphabet == {"0", "1", "5", ".", ",", " ", "a"}

\* Every text over the alphabet of a given length.
TextsOfLen(n) == [1..n -> FloatAlphabet]

\* The arguments the call is tried with: None, numbers, every short text,
\* and the amounts the portal's pages show.
FloatInputs ==
    {None, <<"int", 0>>, <<"int", 7>>, <<"int", 1200>>, <<"float", 15, 1>>,
     <<"float", 123456, 2>>}
    \cup UNION {TextsOfLen(n) : n \in 0..MaxLen}
    \cup { <<"1", ".", "2", "3", "4", ",", "5", "6">>,
           <<"0", ",", "0", "0">>,
           <<"a", "b", "c">>,
           <<"1", ".", "2", "3", "4", ".", "5", "6", "7", ",", "8", "0">> }

IdleFloat ==
    /\ fpc = "idle"
    /\ f_val = None
    /\ f_res = None

\* _to_float_safe is about to be called with some argument.
StartFloat ==
    /\ fpc = "call"
    /\ f_val \in FloatInputs
    /\ f_res = None

\* lines 18-28: the whole call; every exception of the conversion is caught.
ToFloatCall ==
    /\ fpc = "call"
    /\ f_res' = ToFloatSafe(f_val)
    /\ fpc' = "returned"
    /\ UNCHANGED f_val
    /\ UNCHANGED nonFloatVars

NextFloat ==
    \/ ToFloatCall

\* ------------------------------------------------------- specifications
\* ------------------------------------------------- _human_type, one call
\* Longest text typed.
MaxText == 4

\* The texts typed: every text of up to MaxText characters over {a, b}.
TypeTexts == UNION { [1..n -> {"a", "b"}] : n \in 0..MaxText }

\* _human_type is not running.
IdleType ==
    /\ hpc = "idle"
    /\ h_text = <<>>
    /\ h_field = <<>>

\* _human_type(p, selector, text) is called on an empty field.
StartType ==
    /\ hpc = "start"
    /\ h_text \in TypeTexts
    /\ h_field = <<>>

\* lines 62-82: the call types the text, or p.focus raises.
HumanTypeCall ==
    /\ hpc = "start"
    /\ \/ /\ h_field' \in HumanType(h_text, h_field)
          /\ hpc' = "returned"
       \/ /\ h_field' = h_field
          /\ hpc' = "raised"
    /\ UNCHANGED h_text
    /\ UNCHANGED <<searchVars, adapterVars, runVars, emitVars, floatVars,
                   formVars>>

NextType == HumanTypeCall

NextSearch ==
    \/ SearchCycleStart
    \/ SearchExhausted
    \/ SearchType
    \/ SearchFindBtn
    \/ SearchSubmitFails
    \/ SearchReloadTimeout
    \/ SearchSubmitAnswered
    \/ SearchStorage
    \/ SearchReload401
    \/ SearchRowsQuery
    \/ SearchRowBegin
    \/ SearchRowClick
    \/ ExchangeArrive
    \/ DetailArrive
    \/ DetailBody
    \/ SearchRowExtract
    \/ SearchRowClose
    \/ SearchRowTimeout
    \/ SearchCancel

\* search_company called on a fresh PGFNClient.
InitSearch ==
    StartSearch /\ IdleAdapter /\ IdleRun /\ IdleEmit /\ IdleFloat /\ IdleForm
        /\ IdleType

SpecSearch == InitSearch /\ [][NextSearch]_vars

\* run() called by the command line.
InitRun ==
    StartRun /\ IdleAdapter /\ IdleSearch /\ IdleEmit /\ IdleFloat /\ IdleForm
        /\ IdleType

SpecRun == InitRun /\ [][NextRun]_vars

\* emitir_darf_integral called on an opened RegularizeClient.
InitEmit ==
    StartEmit /\ IdleSearch /\ IdleAdapter /\ IdleRun /\ IdleFloat /\ IdleForm
        /\ IdleType

SpecEmit == InitEmit /\ [][NextEmit]_vars

\* _to_float_safe called with one argument.
InitFloat ==
    StartFloat /\ IdleSearch /\ IdleAdapter /\ IdleRun /\ IdleEmit /\ IdleForm
        /\ IdleType

SpecFloat == InitFloat /\ [][NextFloat]_vars

\* emitir_darf_integral called once on a freshly opened page, no PDF
\* response arriving.
InitForm ==
    StartEmit /\ StartForm /\ IdleSearch /\ IdleAdapter /\ IdleRun /\ IdleFloat
        /\ IdleType

SpecForm == InitForm /\ [][NextForm]_vars

\* _human_type called with one text.
InitType ==
    StartType /\ IdleSearch /\ IdleAdapter /\ IdleRun /\ IdleEmit /\ IdleFloat
        /\ IdleForm

SpecType == InitType /\ [][NextType]_vars

\* ---------------------------------------------------------------- claims
\* C1: when every cycle of search_company had its submit answered with
\* status 401 (a token found or not) and search_company returned, it made
\* exactly max_attempts cycles and returned the empty list; and no run ever
\* starts cycle max_attempts + 1.
C1_RetryBound ==
    /\ attempt <= max_attempts
    /\ (spc = "returned" /\ attempt > 0 /\ n401 = attempt)
          => (attempt = max_attempts /\ result = <<>>)

C1_Witness ==
    /\ spc = "returned"
    /\ n401 = attempt
    /\ attempt = 3
    /\ max_attempts = 3
    /\ auth_token = <<"S">>

\* Index of the first record of debtors that carries identifier c.
FirstIndex(ds, c) ==
    CHOOSE k \in 1..Len(ds) :
        ds[k].cnpj = c /\ \A j \in 1..(k - 1) : ds[j].cnpj # c

\* C2: the returned list holds at most one record per identifier, every
\* extracted identifier is in it, the record kept for an identifier is the
\* first one extracted with it, and the records stand in first-seen order.
C2_DedupFirstSeen ==
    spc = "returned" =>
        /\ \A i, j \in 1..Len(result) :
              i # j => result[i].cnpj # result[j].cnpj
        /\ \A k \in 1..Len(debtors) : HasCnpj(result, debtors[k].cnpj)
        /\ \A i \in 1..Len(result) :
              /\ HasCnpj(debtors, result[i].cnpj)
              /\ result[i] = debtors[FirstIndex(debtors, result[i].cnpj)]
        /\ \A i, j \in 1..Len(result) :
              i < j => FirstIndex(debtors, result[i].cnpj)
                          < FirstIndex(debtors, result[j].cnpj)

C2_Witness ==
    /\ spc = "returned"
    /\ Len(debtors) = 2
    /\ debtors[1].cnpj = debtors[2].cnpj
    /\ debtors[1] # debtors[2]
    /\ result = <<debtors[1]>>

\* C3 (as claimed): every record search_company returns has a non-empty
\* identifier.
C3_Original ==
    spc = "returned" => \A i \in 1..Len(result) : result[i].cnpj # <<>>

\* C4: when the page content holds no challenge marker, the adapter returns
\* success with no token, has called the solver zero times and has injected
\* nothing.
C4_NoMarkerNoSolver ==
    (/\ apc \in {"loop", "inject", "verify", "readback", "cookies", "returned"}
     /\ \A i \in 1..Len(content) :
           i + 6 <= Len(content)
              => Lower(SubSeq(content, i, i + 6))
                    # <<"c", "a", "p", "t", "c", "h", "a">>)
        => /\ apc = "returned"
           /\ a_result = <<TRUE, None, None>>
           /\ solverCalls = 0
           /\ field = None

C4_Witness ==
    /\ apc = "returned"
    /\ content = <<"l", "i", "s", "t", "a">>
    /\ a_result = <<TRUE, None, None>>
    /\ solverCalls = 0

\* C5 (as claimed): when emitir_darf_integral reaches its fallback with no
\* download event fired during the call, and the background listener has
\* read the non-empty body of at least one PDF response, the call returns
\* the path built from its arguments, and the file at that path holds bytes
\* the listener captured.
C5_Original ==
    [][(/\ epc = "fallback"
        /\ epc' = "ready"
        /\ ~downloadFired
        /\ delivered # {})
          => /\ e_result'.status = "path"
             /\ e_result'.path = Fname(e_cnpj, e_insc)
             /\ \E f \in files' :
                   f.path = e_result'.path /\ f.data \in delivered]_vars

\* C6 (as claimed): once the session is established run() does not abort,
\* and it gets to the document emission loop, where a record whose emission
\* fails does not stop the remaining ones.
C6_Original ==
    (RunEnded /\ "session" \in reached)
        => (exitCode = 0 /\ "emit" \in reached)

\* C7 (as claimed): search_company never raises to its caller, whatever
\* primitive throws.
C7_Original == spc # "raised"

\* C8 (as claimed): run() ends with sys.exit(1) only when the initial
\* session could not be established.
C8_Original ==
    (RunEnded /\ exitCode = 1) => "session" \notin reached

\* C9 (as claimed): when the challenge adapter has returned, solved or not,
\* run() goes on to invoke search_company.
C9_Original ==
    (RunEnded /\ apc = "returned") => "search" \in reached

\* C10 (as claimed): when the task is cancelled during row processing after
\* at least one row was extracted, the extracted rows are returned.
C10_Original ==
    (cancelAt > 0 /\ Len(debtors) > 0)
        => (spc = "returned" /\ result = Dedup(debtors, <<>>))


RECURSIVE Pow10(_)
Pow10(k) == IF k = 0 THEN 1 ELSE 10 * Pow10(k - 1)

\* The numbers a (a float) and b (an int or a float) have the same value.
SameNumber(a, b) ==
    /\ a # None
    /\ a[1] = "float"
    /\ IF b[1] = "int"
       THEN a[2] = b[2] * Pow10(a[3])
       ELSE a[2] * Pow10(b[3]) = b[2] * Pow10(a[3])

\* A text in regional format: digits, thousands dots each followed by three
\* digits, and possibly a decimal comma followed by digits.
IsRegionalText(v) ==
    /\ ~IsNumber(v)
    /\ v # None
    /\ v # <<>>
    /\ \A i \in 1..Len(v) : v[i] \in Digits \cup {".", ","}
    /\ v[1] \in Digits
    /\ Cardinality({i \in 1..Len(v) : v[i] = ","}) <= 1
    /\ v[Len(v)] \in Digits
    /\ \A i \in 1..Len(v) :
          v[i] = "." =>
             /\ \A j \in 1..i : v[j] # ","
             /\ i + 3 <= Len(v)
             /\ \A j \in (i + 1)..(i + 3) : v[j] \in Digits
             /\ (i + 3 < Len(v) => v[i + 4] \in {".", ","})

\* The amount a regional text denotes: its digits, the ones after the comma
\* being the fraction.
RegionalAmount(v) ==
    LET IsDigit(c) == c \in Digits
        commas == {i \in 1..Len(v) : v[i] = ","}
        frac == IF commas = {} THEN 0
                ELSE Len(v) - (CHOOSE i \in commas : TRUE)
    IN  <<"float", DigitsValue(SelectSeq(v, IsDigit), 0), frac>>

\* C11: _to_float_safe always returns a value, never an exception: None for
\* None, the same number for an int or a float, the denoted amount for a
\* text in regional format ("1.234,56" gives 1234.56, "0,00" gives 0.0), and
\* None for a text that holds a letter or nothing but blanks.
C11_ToFloatSafe ==
    fpc = "returned" =>
        /\ f_res = None \/ f_res[1] = "float"
        /\ f_val = None => f_res = None
        /\ IsNumber(f_val) => SameNumber(f_res, f_val)
        /\ IsRegionalText(f_val) => SameNumber(f_res, RegionalAmount(f_val))
        /\ f_val = <<"1", ".", "2", "3", "4", ",", "5", "6">>
              => f_res = <<"float", 123456, 2>>
        /\ f_val = <<"0", ",", "0", "0">> => f_res = <<"float", 0, 0>>
        /\ (/\ ~IsNumber(f_val)
            /\ \/ Strip(f_val) = <<>>
               \/ \E i \in 1..Len(f_val) : f_val[i] \in {"a", "b", "c"})
              => f_res = None

C11_Witness ==
    /\ fpc = "returned"
    /\ f_val = <<"1", ".", "2", "3", "4", ",", "5", "6">>
    /\ f_res = <<"float", 123456, 2>>


\* C12 (as claimed): whatever the shape of the captured payload, a map or a
\* bare list of row-maps, extraction adds exactly one record when the payload
\* holds a non-empty identifier and no record when it holds none.
C12_Original ==
    [][(spc = "row_wait" /\ spc' \in {"row_begin", "row_close", "returned"}
        /\ PayloadTruthy(slot))
          => Len(debtors') =
                Len(debtors) + (IF Truthy(slot.id) THEN 1 ELSE 0)]_vars


\* C13: the recovery steps taken for one 401 response come in a fixed order.
\* The first is the look at the response's headers; page storage is read
\* only when the headers held no token; the entry page is reloaded only when
\* storage held none either and cycles were left; after a reload storage is
\* read once more, and nothing follows.
C13_RecoveryOrder ==
    /\ Len(recov) <= 4
    /\ Len(recov) >= 1 => recov[1].act = "header"
    /\ Len(recov) >= 2 =>
          /\ recov[2].act = "storage"
          /\ recov[1].a \in {None, <<>>}
          /\ recov[1].t \in {None, <<>>}
    /\ Len(recov) >= 3 =>
          /\ recov[3].act = "reload"
          /\ recov[2].a \in {None, <<>>}
          /\ recov[3].left > 0
    /\ Len(recov) = 4 => recov[4].act = "storage"

C13_Witness ==
    /\ spc = "loop"
    /\ Len(recov) = 4
    /\ recov[4].a = <<"S">>
    /\ auth_token = <<"S">>


\* A step in which a request to the data endpoint went through the route
\* handler: the submit that was answered, or the click on a row's button.
RequestLeft ==
    \/ spc = "submit" /\ spc' \in {"loop", "storage", "rows_query"}
    \/ spc = "row_click" /\ spc' = "row_wait"

\* C14 (as claimed): when the request that carried the cached token was
\* answered 401 and neither the response's headers nor page storage gave a
\* token, the next request does not carry the rejected token.
C14_Original ==
    [][(/\ spc = "submit"
        /\ spc' \in {"loop", "storage", "rows_query"}
        /\ recov # <<>>
        /\ \A i \in 1..Len(recov) :
              recov[i].a \in {None, <<>>} /\ recov[i].t \in {None, <<>>}
        /\ Truthy(auth_token)
        /\ sent = [auth |-> auth_token, via |-> "headers"])
          => sent'.auth # auth_token]_vars

\* C15 (as claimed): once a token is cached, every request to the data
\* endpoint that goes through the route handler carries, as authorization,
\* the token cached at that moment, whatever listener updates came before.
C15_Original ==
    [][(RequestLeft /\ Truthy(auth_token))
          => sent'.auth = auth_token]_vars


\* C16: the adapter calls the solver at most Retries + 1 times, one call at
\* a time; a call after the first is made only when the attempt before it
\* ended with an empty result, an error or a failed read-back; once the
\* adapter has returned (a verified injection included) no call is made; and
\* when the loop runs out the adapter returns failure, after exactly
\* Retries + 1 calls.
C16_SolverBudget ==
    [][/\ solverCalls' <= Retries + 1
       /\ solverCalls' # solverCalls =>
             /\ solverCalls' = solverCalls + 1
             /\ a_result = <<>>
             /\ solverCalls > 0 => a_outcome \in {"empty", "error", "readback"}
       /\ (apc = "returned" \/ a_outcome = "verified") =>
             solverCalls' = solverCalls
       /\ (apc = "loop" /\ apc' = "returned") =>
             /\ a_result' = <<FALSE, None, None>>
             /\ solverCalls = Retries + 1]_vars

C16_Witness ==
    /\ apc = "returned"
    /\ a_result = <<FALSE, None, None>>
    /\ solverCalls = 3
    /\ a_outcome = "readback"

\* C17 (as claimed): when a challenge marker was found and the adapter
\* returned success, the read-back of the response field held the token that
\* was injected.
C17_Original ==
    (apc = "returned" /\ solverCalls > 0 /\ a_result[1] = TRUE)
        => a_result[2] = a_token


\* C18 (as claimed): when two exchanges matching the data endpoint were
\* captured for one submit, the cycle goes by the status of the later one:
\* rows are read exactly when it is 200, and the 401 recovery is entered
\* exactly when it is 401.
C18_Original ==
    [][(/\ spc = "submit"
        /\ spc' \in {"loop", "storage", "rows_query"}
        /\ Len(seen') = 2)
          => /\ (spc' = "rows_query") <=> (seen'[2] = 200)
             /\ (n401' = n401 + 1) <=> (seen'[2] = 401)]_vars

\* C19 (as claimed): the stored payload is that of the most recently arrived
\* PDF response: when the body read of a response ends after the body of a
\* response that arrived later was already read, the stored payload stays
\* as it was.
C19_Original ==
    [][\A m \in pending \ pending' :
          (\E k \in (m.seq + 1)..arrivals : \A n \in pending : n.seq # k)
              => last_pdf_bytes' = last_pdf_bytes]_vars

\* C20: the download comes first and the captured bytes are written only
\* when no download was saved: at the fallback step of a call whose download
\* was saved, no file changes, the file at the returned path holds the bytes
\* of the download, and that path is returned; the fallback step changes a
\* file only when no download was saved.
C20_DownloadFirst ==
    [][(epc = "fallback" /\ epc' = "ready")
          => /\ (e_path # None)
                  => /\ files' = files
                     /\ e_path = Fname(e_cnpj, e_insc)
                     /\ [path |-> e_path, data |-> e_download] \in files'
                     /\ e_result' = [status |-> "path", path |-> e_path]
             /\ (files' # files) => (e_path = None)]_vars

C20_Witness ==
    /\ epc = "ready"
    /\ calls = 1
    /\ downloadFired
    /\ Truthy(last_pdf_bytes)
    /\ e_download = <<"d">>
    /\ e_result = [status |-> "path", path |-> Fname(e_cnpj, e_insc)]
    /\ files = {[path |-> Fname(e_cnpj, e_insc), data |-> <<"d">>]}

\* C21 (as claimed): the path of a document is keyed by (identifier,
\* inscription number): while a call is acquiring its document, no other
\* pair of arguments has the path this call writes to.
C21_Original ==
    (epc \in {"saving", "fallback"})
        => \A c \in Cnpjs, i \in Inscs :
              (<<c, i>> # <<e_cnpj, e_insc>>)
                  => Fname(c, i) # Fname(e_cnpj, e_insc)

\* C26 (as claimed): an emission during which nothing is obtainable fails.
\* Taken where exactly one PDF response ever arrived and an earlier call
\* already wrote its bytes to a file (so it was delivered before this call
\* began): a call that saw no download event raises at its fallback step.
C26_Original ==
    [][(/\ epc = "fallback"
        /\ epc' = "ready"
        /\ ~downloadFired
        /\ arrivals = 1
        /\ pending = {}
        /\ \E f \in files : f.data = last_pdf_bytes)
          => e_result'.status = "raised"]_vars

\* C22 (as claimed): when the click of the search submit raises, the cycle
\* is given up only after a forced click and then a keyboard submit were
\* tried as well.
C22_Original ==
    [][(/\ spc = "submit"
        /\ spc' \in {"reload_timeout", "returned"}
        /\ clicked'[1].threw)
          => /\ Len(clicked') = 3
             /\ clicked'[1].how = "normal"
             /\ clicked'[2].how = "force"
             /\ clicked'[3].how = "keyboard"]_vars

\* C23 (as claimed): when both safe_fill calls found a field, the identifier
\* and the inscription number are in two different fields of the page.
C23_Original ==
    (Len(flog) >= 2 /\ flog[1].ok /\ flog[2].ok)
        => /\ flog[1].at # flog[2].at
           /\ form[flog[1].at] = e_cnpj
           /\ form[flog[2].at] = e_insc

\* C24 (as claimed): Consultar is clicked only after both fields were
\* filled, Emitir DARF integral is clicked only after Consultar was clicked,
\* and the acquisition is entered only after Emitir DARF integral was
\* clicked.
C24_Original ==
    /\ (Len(flog) >= 3 /\ flog[3].ok) => (flog[1].ok /\ flog[2].ok)
    /\ (Len(flog) >= 4 /\ flog[4].ok) => flog[3].ok
    /\ (epc \in {"imprimir", "saving", "fallback"})
          => (Len(flog) = 4 /\ flog[4].ok)

RECURSIVE LeftSum(_)
\* The body reads the listeners still owe for the responses in S.
LeftSum(S) ==
    IF S = {} THEN 0
    ELSE LET m == CHOOSE x \in S : TRUE IN m.left + LeftSum(S \ {m})

\* The steps the listeners can still take: one for each late answer to a
\* submit, and for each detail response its arrival and one body read for
\* each listener (there are at most max_attempts listeners).
ListenerRank ==
    unheard + (max_attempts + 1) * Cardinality(inflight) + LeftSum(reading)

\* What one row can cost: four steps of the loop and the listener steps its
\* response brings.
RowCost == max_attempts + 6

\* The steps search_company and its listeners can still take: a bound that
\* every step lowers.  Before the rows are read it counts the cycles left
\* (six steps and one late answer each) and the row phase still to come; in
\* the row phase it counts the rows left; the listener steps come on top.
SearchRank ==
    ListenerRank +
    (IF SearchEnded THEN 0
     ELSE IF spc \in {"row_begin", "row_click", "row_wait", "row_close"}
     THEN RowCost * (nrows - idx + 1)
            + (CASE spc = "row_begin" -> 1
                 [] spc = "row_click" -> 0
                 [] spc = "row_wait" -> -(max_attempts + 2)
                 [] OTHER -> -(max_attempts + 3))
     ELSE IF spc = "rows_query" THEN RowCost * MaxRows + 2
     ELSE RowCost * MaxRows + 3
            + 7 * (max_attempts - attempt)
            + (CASE spc = "type" -> 6
                 [] spc = "findbtn" -> 5
                 [] spc = "submit" -> 4
                 [] spc = "storage" -> 2
                 [] spc \in {"reload_timeout", "reload_401"} -> 1
                 [] OTHER -> 0))

\* A step search_company takes itself: not the arrival of a response at
\* the listener and not a cancellation.
SearchOwnStep ==
    /\ NextSearch
    /\ spc' # "cancelled"
    /\ <<spc, idx, attempt>>' # <<spc, idx, attempt>>

\* C25: search_company terminates: it never starts more than max_attempts
\* cycles, every step it or its listener takes lowers a bound that is never
\* negative (the waits for the matching response and for a row's payload
\* each end in one step, by an answer or by the timeout), and as long as it
\* has not ended it can take a step of its own, whatever has arrived.
C25_Terminates ==
    /\ [](attempt <= max_attempts /\ SearchRank >= 0)
    /\ [][SearchRank' < SearchRank]_vars
    /\ [](~SearchEnded => ENABLED SearchOwnStep)

C25_Witness ==
    /\ spc = "returned"
    /\ max_attempts = MaxAttempts
    /\ attempt = max_attempts
    /\ result = <<>>
    /\ n401 = 1
    /\ recov = <<>>

\* C27 (as claimed): the record appended for a row is built from the
\* response to the click on that row.
C27_Original ==
    [][(/\ spc = "row_wait"
        /\ spc' = "row_close"
        /\ Len(debtors') = Len(debtors) + 1)
          => slotRow = idx]_vars

\* C28 (as claimed): at most one response listener and at most one route
\* handler of search_company are registered on the page.
C28_Original == listeners <= 1 /\ routes <= 1

\* C29 (as claimed): text typed in an earlier cycle is not in the name field
\* any more when a cycle starts typing.
C29_Original == (spc = "type") => (namefield = <<>>)

\* C30 (as claimed): _human_type leaves a field that was empty holding
\* exactly the text.
C30_Original == (hpc = "returned") => (h_field = h_text)

=============================================================================
